---- MODULE Spec2Model ----
(***************************************************************************)
(* A model of the Logger class of src/index.js: construction, the four     *)
(* severity methods, callback registration, message formatting, the file   *)
(* sink (fs) and the console sink (console.log).                           *)
(*                                                                         *)
(* JavaScript strings are sequences of one-character strings, so that      *)
(* concatenation, String(arg), join(" ") and the newline that console.log  *)
(* appends are computed and not assumed.  JavaScript values are records    *)
(* with one field per primitive type and a "type" tag (typeof).            *)
(***************************************************************************)
EXTENDS Integers, Sequences, FiniteSets

VARIABLES phase, logToFile, logToConsole, logFilePath, level, cb,
          disk, stdout, now, last, pre, nops

vars == <<phase, logToFile, logToConsole, logFilePath, level, cb,
          disk, stdout, now, last, pre, nops>>

(* ------------------------------ bounds -------------------------------- *)

\* number of method calls (log calls and on calls) made on the logger
MaxOps == 3

(* -------------------------- JavaScript values ------------------------- *)

Undefined == [type |-> "undefined", s |-> <<>>, n |-> 0, b |-> FALSE, f |-> ""]
JSString(chars) == [type |-> "string", s |-> chars, n |-> 0, b |-> FALSE, f |-> ""]
JSNumber(k) == [type |-> "number", s |-> <<>>, n |-> k, b |-> FALSE, f |-> ""]
JSBoolean(x) == [type |-> "boolean", s |-> <<>>, n |-> 0, b |-> x, f |-> ""]
JSFunction(id) == [type |-> "function", s |-> <<>>, n |-> 0, b |-> FALSE, f |-> id]

\* ToBoolean, as used by ||, && and if
Truthy(v) ==
  CASE v.type = "undefined" -> FALSE
    [] v.type = "string" -> v.s # <<>>
    [] v.type = "number" -> v.n # 0
    [] v.type = "boolean" -> v.b
    [] OTHER -> TRUE

\* a || b
Or(a, b) == IF Truthy(a) THEN a ELSE b

\* a destructuring default: name = d applies when the property is undefined
Default(v, d) == IF v.type = "undefined" THEN d ELSE v

Digit(k) == <<"0", "1", "2", "3", "4", "5", "6", "7", "8", "9">>[k + 1]

RECURSIVE NatToString(_)
NatToString(k) == IF k < 10 THEN <<Digit(k)>>
                  ELSE NatToString(k \div 10) \o <<Digit(k % 10)>>

\* String(arg) of src/index.js:149
String(v) ==
  CASE v.type = "undefined" -> <<"u", "n", "d", "e", "f", "i", "n", "e", "d">>
    [] v.type = "string" -> v.s
    [] v.type = "number" ->
         IF v.n < 0 THEN <<"-">> \o NatToString(0 - v.n) ELSE NatToString(v.n)
    [] v.type = "boolean" ->
         IF v.b THEN <<"t", "r", "u", "e">> ELSE <<"f", "a", "l", "s", "e">>
    [] OTHER -> <<"f", "u", "n", "c", "t", "i", "o", "n">>

(* ------------------------------ constants ----------------------------- *)

LOG_TYPES == [DEBUG |-> <<"D", "E", "B", "U", "G">>,
              INFO  |-> <<"I", "N", "F", "O">>,
              WARN  |-> <<"W", "A", "R", "N">>,
              ERROR |-> <<"E", "R", "R", "O", "R">>]

LOG_LEVELS == [DEBUG |-> 0, INFO |-> 1, WARN |-> 2, ERROR |-> 3]

TypeNames == {"DEBUG", "INFO", "WARN", "ERROR"}

\* Object.values(LOG_TYPES).includes(v): SameValueZero against four strings
IncludesLogType(v) ==
  v.type = "string" /\ \E k \in TypeNames : LOG_TYPES[k] = v.s

(* ------------------------------ errors -------------------------------- *)

NoError == "none"
\* destructuring the parameter of the constructor when it is undefined
DestructureTypeError == "TypeError: Cannot destructure property of undefined"
\* src/index.js:127
NoPathError == "Error: No log file path provided"
\* whatever a registered callback throws
CallbackError == "thrown by callback"

(* ------------------------------ fs, console --------------------------- *)

LogPath == <<"t", ".", "l", "o", "g">>
Paths == {LogPath}

NoFile == [exists |-> FALSE, data |-> <<>>]
OldFile == [exists |-> TRUE, data |-> <<"o", "l", "d", "\n">>]

existsSync(d, p) == d[p].exists
unlinkSync(d, p) == [d EXCEPT ![p] = NoFile]
writeFileSync(d, p, data) == [d EXCEPT ![p] = [exists |-> TRUE, data |-> data]]
\* a write that truncates where the code appends
appendFileSyncTruncates(d, p, data) ==
  [d EXCEPT ![p] = [exists |-> TRUE, data |-> data]]

appendFileSync(d, p, data) ==
  [d EXCEPT ![p] = [exists |-> TRUE,
                    data |-> IF d[p].exists THEN d[p].data \o data ELSE data]]

\* console.log(message): the string and a newline go to the standard output
consoleLog(out, message) == out \o message \o <<"\n">>

\* new Date().toISOString() for an instant `t` ms after the epoch, t < 1000
Pad3(k) == <<Digit(k \div 100), Digit((k \div 10) % 10), Digit(k % 10)>>
toISOString(t) ==
  <<"1", "9", "7", "0", "-", "0", "1", "-", "0", "1", "T",
    "0", "0", ":", "0", "0", ":", "0", "0", ".">> \o Pad3(t) \o <<"Z">>

(* ------------------------------ inputs -------------------------------- *)

EmptyObject == [k \in {} |-> Undefined]

\* the argument of the constructor: undefined (new Logger()) or an object.
\* A property that is not given reads as undefined.
NoOpts == [undef |-> TRUE, logToFile |-> Undefined, logToConsole |-> Undefined,
           logFilePath |-> Undefined, level |-> Undefined, clearFile |-> Undefined,
           clearFileOnInit |-> Undefined]

BoolInputs == {Undefined, JSBoolean(TRUE), JSBoolean(FALSE)}

OptsInputs ==
  {NoOpts} \cup
  [undef : {FALSE},
   logToFile : BoolInputs,
   logToConsole : BoolInputs,
   logFilePath : {Undefined, JSString(<<>>), JSString(LogPath)},
   level : {Undefined} \cup {JSNumber(k) : k \in 0..3},
   clearFile : BoolInputs,
   clearFileOnInit : {Undefined, JSBoolean(TRUE)}]

\* the variadic arguments of a log call: a string, a number and a boolean
MessageInputs == {<<JSString(<<"a">>), JSNumber(1), JSBoolean(TRUE)>>}

Callbacks == {"f", "g"}

\* the arguments of on: every recognized name with every callback, and
\* calls with a level that is no value of LOG_TYPES (an ordinal of
\* LOG_LEVELS, a lower-case name) or with a callback that is no function
OnInputs ==
  ({JSString(LOG_TYPES[k]) : k \in TypeNames} \X {JSFunction(c) : c \in Callbacks})
  \cup {<<JSNumber(LOG_LEVELS.WARN), JSFunction("f")>>,
        <<JSString(<<"w", "a", "r", "n">>), JSFunction("g")>>,
        <<JSString(LOG_TYPES.WARN), JSString(<<"f">>)>>}

NoCall == [op |-> "none", opts |-> NoOpts, level |-> Undefined, args |-> <<>>,
           invoked |-> <<>>, thrown |-> NoError]

(* ------------------------------ formatting ---------------------------- *)

RECURSIVE Join(_, _)
\* Array.prototype.join
Join(strs, sep) ==
  IF strs = <<>> THEN <<>>
  ELSE IF Len(strs) = 1 THEN strs[1]
  ELSE strs[1] \o sep \o Join(Tail(strs), sep)

\* #getFormattedMessage
getFormattedMessage(message) ==
  Join([i \in 1..Len(message) |-> String(message[i])], <<" ">>) \o <<"\n">>

\* #getFormattedDate
getFormattedDate(t) == toISOString(t)

\* the template literal of #log: `${date} [${level}] ${payloadString}`
logMessage(lvl, message, t) ==
  getFormattedDate(t) \o <<" ", "[">> \o lvl \o <<"]", " ">>
    \o getFormattedMessage(message)

(* ------------------------------ sinks --------------------------------- *)

\* a file sink that skips the write when it has no path
PrivLogToFileSkipsNoPath(d, msg) ==
  IF Truthy(logToFile) /\ Truthy(logFilePath)
    THEN [thrown |-> NoError, disk |-> appendFileSync(d, logFilePath.s, msg)]
    ELSE [thrown |-> NoError, disk |-> d]

\* #logToFile: the error it throws and the disk it leaves
PrivLogToFile(d, msg) ==
  IF Truthy(logToFile)
    THEN IF ~Truthy(logFilePath)
           THEN [thrown |-> NoPathError, disk |-> d]
           ELSE [thrown |-> NoError, disk |-> appendFileSync(d, logFilePath.s, msg)]
    ELSE [thrown |-> NoError, disk |-> d]

\* #logToConsole
PrivLogToConsole(out, msg) ==
  IF Truthy(logToConsole) THEN consoleLog(out, msg) ELSE out

\* #log: file first, then console; a throw of #logToFile skips the console
PrivLog(lvl, message, t) ==
  LET msg == logMessage(lvl, message, t)
      fr == PrivLogToFile(disk, msg)
  IN  IF fr.thrown # NoError
        THEN [thrown |-> fr.thrown, disk |-> fr.disk, stdout |-> stdout]
        ELSE [thrown |-> NoError, disk |-> fr.disk,
              stdout |-> PrivLogToConsole(stdout, msg)]

\* a filter that also drops the minimum level itself
FilteredOffByOne(minimum, lvl) == minimum.n >= lvl

\* if (this.level > level) return;
Filtered(minimum, lvl) == minimum.n > lvl

(* ------------------------------ actions ------------------------------- *)

Init ==
  /\ phase = "new"
  /\ logToFile = Undefined
  /\ logToConsole = Undefined
  /\ logFilePath = Undefined
  /\ level = Undefined
  /\ cb = EmptyObject
  /\ disk \in [Paths -> {NoFile, OldFile}]
  /\ stdout = <<>>
  /\ now = 0
  /\ last = NoCall
  /\ pre = [disk |-> disk, stdout |-> <<>>, cb |-> EmptyObject]
  /\ nops = 0

\* what an operation found when it was called
Snapshot == [disk |-> disk, stdout |-> stdout, cb |-> cb]

\* a constructor that leaves an existing file where it is
ClearedDiskNoUnlink(d, toFile, path, clear) ==
  IF Truthy(toFile) /\ Truthy(path) /\ Truthy(clear)
    THEN writeFileSync(d, path.s, <<>>)
    ELSE d

\* the disk after the "Clear file if specified" block of the constructor
ClearedDisk(d, toFile, path, clear) ==
  IF Truthy(toFile) /\ Truthy(path)
    THEN LET d1 == IF existsSync(d, path.s) THEN unlinkSync(d, path.s) ELSE d
         IN  IF Truthy(clear) THEN writeFileSync(d1, path.s, <<>>) ELSE d1
    ELSE d

\* new Logger(opts)
Constructor(opts) ==
  /\ phase = "new"
  /\ pre' = Snapshot
  /\ IF opts.undef
       THEN /\ phase' = "failed"
            /\ last' = [NoCall EXCEPT !.op = "new", !.opts = opts,
                                      !.thrown = DestructureTypeError]
            /\ UNCHANGED <<logToFile, logToConsole, logFilePath, level, cb, disk>>
       ELSE LET toFile == Or(Default(opts.logToFile, JSBoolean(FALSE)), JSBoolean(FALSE))
                toConsole == Or(Default(opts.logToConsole, JSBoolean(FALSE)), JSBoolean(FALSE))
                path == Or(opts.logFilePath, Undefined)
                clear == Default(opts.clearFile, JSBoolean(FALSE))
            IN  /\ phase' = "ready"
                /\ logToFile' = toFile
                /\ logToConsole' = toConsole
                /\ logFilePath' = path
                /\ level' = IF opts.level = Undefined
                              THEN JSNumber(LOG_LEVELS.INFO) ELSE opts.level
                /\ cb' = EmptyObject
                /\ disk' = ClearedDisk(disk, toFile, path, clear)
                /\ last' = [NoCall EXCEPT !.op = "new", !.opts = opts]
  /\ UNCHANGED <<stdout, now, nops>>

\* a method that calls its callback only after the filter let the call pass
InvokeWhenEmitted(table, type, message, outcome) ==
  IF LOG_TYPES[type] \in DOMAIN table /\ ~Filtered(level, LOG_LEVELS[type])
    THEN <<[f |-> table[LOG_TYPES[type]].f, args |-> message, outcome |-> outcome]>>
    ELSE <<>>

\* if (this.cb[LOG_TYPES.X]) this.cb[LOG_TYPES.X](...message): the calls of
\* callbacks the first statement of a method makes.  What the callback does
\* is its caller's code: `outcome` says whether it returns or throws.
Invoke(table, type, message, outcome) ==
  IF LOG_TYPES[type] \in DOMAIN table
    THEN <<[f |-> table[LOG_TYPES[type]].f, args |-> message, outcome |-> outcome]>>
    ELSE <<>>

\* a method that catches what its callback throws
PropagatesNever(inv) == FALSE

\* the callback is called outside any try block: what it throws leaves the method
Propagates(inv) == inv # <<>> /\ inv[Len(inv)].outcome = "throw"

\* the body shared by debug, info, warn and error: type is the key of
\* LOG_TYPES and LOG_LEVELS the method uses, tag the string it passes to #log
LogMethod(name, type, tag, message) ==
  /\ phase = "ready"
  /\ nops < MaxOps
  /\ nops' = nops + 1
  /\ pre' = Snapshot
  /\ \E outcome \in IF LOG_TYPES[type] \in DOMAIN cb
                      THEN {"return", "throw"} ELSE {"return"} :
       LET inv == Invoke(cb, type, message, outcome)
           call == [NoCall EXCEPT !.op = name, !.args = message, !.invoked = inv]
       IN  IF Propagates(inv)
             THEN /\ last' = [call EXCEPT !.thrown = CallbackError]
                  /\ UNCHANGED <<disk, stdout, now>>
             ELSE IF Filtered(level, LOG_LEVELS[type])
                    THEN /\ last' = call
                         /\ UNCHANGED <<disk, stdout, now>>
                    ELSE LET r == PrivLog(tag, message, now)
                         IN  /\ now' = now + 1
                             /\ disk' = r.disk
                             /\ stdout' = r.stdout
                             /\ last' = [call EXCEPT !.thrown = r.thrown]
  /\ UNCHANGED <<phase, logToFile, logToConsole, logFilePath, level, cb>>

debug == \E message \in MessageInputs :
           LogMethod("debug", "DEBUG", <<"D", "E", "B", "U", "G">>, message)

info == \E message \in MessageInputs :
          LogMethod("info", "INFO", <<"I", "N", "F", "O">>, message)

warn == \E message \in MessageInputs :
          LogMethod("warn", "WARN", <<"W", "A", "R", "N">>, message)

error == \E message \in MessageInputs :
           LogMethod("error", "ERROR", <<"E", "R", "R", "O", "R">>, message)

\* a registration that keeps the callback a severity already has
OnTableKeepsFirst(table, lvl, fn) ==
  IF ~IncludesLogType(lvl) THEN table
  ELSE IF fn.type # "function" THEN table
  ELSE IF lvl.s \in DOMAIN table THEN table
  ELSE [k \in DOMAIN table \cup {lvl.s} |-> IF k = lvl.s THEN fn ELSE table[k]]

\* a registration that does not look at the type of the callback
OnTableAnyValue(table, lvl, fn) ==
  IF ~IncludesLogType(lvl) THEN table
  ELSE [k \in DOMAIN table \cup {lvl.s} |-> IF k = lvl.s THEN fn ELSE table[k]]

\* the callback table after on(lvl, fn)
OnTable(table, lvl, fn) ==
  IF ~IncludesLogType(lvl) THEN table
  ELSE IF fn.type # "function" THEN table
  ELSE [k \in DOMAIN table \cup {lvl.s} |-> IF k = lvl.s THEN fn ELSE table[k]]

on == \E in \in OnInputs :
      LET lvl == in[1]
          fn == in[2]
      IN
        /\ phase = "ready"
        /\ nops < MaxOps
        /\ nops' = nops + 1
        /\ pre' = Snapshot
        /\ cb' = OnTable(cb, lvl, fn)
        /\ last' = [NoCall EXCEPT !.op = "on", !.level = lvl, !.args = <<fn>>]
        /\ UNCHANGED <<phase, logToFile, logToConsole, logFilePath, level,
                       disk, stdout, now>>

New == \E opts \in OptsInputs : Constructor(opts)

Next == New \/ debug \/ info \/ warn \/ error \/ on

Spec == Init /\ [][Next]_vars

(* ====================================================================== *)
(* The properties.  `last` is the operation that led to the state and `pre` *)
(* what that operation found; a property of a call is an invariant over    *)
(* the two.                                                                *)
(* ====================================================================== *)

LogOps == {"debug", "info", "warn", "error"}
IsLogCall == last.op \in LogOps

\* the severity of the method that was called
CalledType ==
  CASE last.op = "debug" -> "DEBUG"
    [] last.op = "info" -> "INFO"
    [] last.op = "warn" -> "WARN"
    [] OTHER -> "ERROR"

Ordinal(type) ==
  CASE type = "DEBUG" -> 0 [] type = "INFO" -> 1 [] type = "WARN" -> 2 [] OTHER -> 3

PassesFilter == Ordinal(CalledType) >= level.n

CallbackRaised == \E i \in 1..Len(last.invoked) : last.invoked[i].outcome = "throw"

\* the file sink is enabled and has no path
Misconfigured == Truthy(logToFile) /\ ~Truthy(logFilePath)

IsPrefix(a, b) == Len(a) <= Len(b) /\ SubSeq(b, 1, Len(a)) = a
Delta(a, b) == SubSeq(b, Len(a) + 1, Len(b))

IsDigit(c) == c \in {"0", "1", "2", "3", "4", "5", "6", "7", "8", "9"}

\* YYYY-MM-DDTHH:mm:ss.sssZ
IsTimestamp(str) ==
  /\ Len(str) = 24
  /\ \A i \in {1, 2, 3, 4, 6, 7, 9, 10, 12, 13, 15, 16, 18, 19, 21, 22, 23} :
       IsDigit(str[i])
  /\ str[5] = "-" /\ str[8] = "-" /\ str[11] = "T" /\ str[14] = ":"
  /\ str[17] = ":" /\ str[20] = "." /\ str[24] = "Z"

\* the upper-case tag of a severity
TagText(type) ==
  CASE type = "DEBUG" -> <<"D", "E", "B", "U", "G">>
    [] type = "INFO" -> <<"I", "N", "F", "O">>
    [] type = "WARN" -> <<"W", "A", "R", "N">>
    [] OTHER -> <<"E", "R", "R", "O", "R">>

\* the arguments ["a", 1, true] render as "a 1 true"; a single string
\* renders as itself
Rendered(args) ==
  IF args = <<JSString(<<"a">>), JSNumber(1), JSBoolean(TRUE)>>
    THEN <<"a", " ", "1", " ", "t", "r", "u", "e">>
    ELSE IF Len(args) = 1 /\ args[1].type = "string" THEN args[1].s
    ELSE <<>>

\* <timestamp> [<SEVERITY>] <message>\n and nothing else
IsFormattedLine(l, type, args) ==
  /\ Len(l) > 24
  /\ IsTimestamp(SubSeq(l, 1, 24))
  /\ SubSeq(l, 25, Len(l)) =
       <<" ", "[">> \o TagText(type) \o <<"]", " ">> \o Rendered(args) \o <<"\n">>

\* `b` is `a` and then text that begins with the formatted line of the call
GotLine(a, b) ==
  /\ IsPrefix(a, b)
  /\ \E k \in 1..Len(Delta(a, b)) :
       IsFormattedLine(SubSeq(Delta(a, b), 1, k), CalledType, last.args)

FileText(d) == IF d[LogPath].exists THEN d[LogPath].data ELSE <<>>

FileGotLine ==
  /\ Truthy(logFilePath)
  /\ disk[logFilePath.s].exists
  /\ GotLine(FileText(pre.disk), FileText(disk))

ConsoleGotLine == GotLine(pre.stdout, stdout)

NothingWritten == disk = pre.disk /\ stdout = pre.stdout

\* each enabled sink got the line of the call, a disabled sink got nothing
EnabledSinksWritten ==
  /\ IF Truthy(logToFile) THEN FileGotLine ELSE disk = pre.disk
  /\ IF Truthy(logToConsole) THEN ConsoleGotLine ELSE stdout = pre.stdout

\* C1 as stated: a call whose callback, if any, returns normally writes to
\* each enabled sink if and only if ordinal(s) >= ordinal(m).  It fails when
\* the file sink is enabled without a path: the call raises before the
\* console is written.
C1_Original ==
  (IsLogCall /\ ~CallbackRaised) =>
     IF PassesFilter THEN EnabledSinksWritten ELSE NothingWritten

\* C1: for every severity s and minimum level m, a call to the s-level
\* method whose callback, if any, returns normally writes its message to
\* each enabled sink if and only if ordinal(s) >= ordinal(m), provided an
\* enabled file sink has a path; when logToFile is true and logFilePath is
\* unset the call writes to no sink, whatever s and m are.
C1_SeverityFilter ==
  (IsLogCall /\ ~CallbackRaised) =>
     IF PassesFilter /\ ~Misconfigured THEN EnabledSinksWritten ELSE NothingWritten

C1_Witness ==
  /\ last.op = "warn" /\ level.n = 2 /\ ~CallbackRaised
  /\ Truthy(logToFile) /\ Truthy(logToConsole) /\ ~Misconfigured
  /\ FileGotLine /\ ConsoleGotLine

\* C2: a call to the s-level method invokes the callback registered for s
\* (the one the latest on(s, cb) with a recognized s left in the table)
\* exactly once with the arguments of the call, whatever the minimum level
\* is, and invokes no other callback; with none registered it invokes none.
C2_CallbackFires ==
  /\ (last.op = "on" /\ IncludesLogType(last.level) /\ last.args[1].type = "function")
       => (last.level.s \in DOMAIN cb /\ cb[last.level.s] = last.args[1])
  /\ IsLogCall =>
       IF TagText(CalledType) \in DOMAIN pre.cb
         THEN /\ Len(last.invoked) = 1
              /\ last.invoked[1].f = pre.cb[TagText(CalledType)].f
              /\ last.invoked[1].args = last.args
         ELSE last.invoked = <<>>

\* a call that the filter drops, made with callbacks for two severities
C2_Witness ==
  /\ last.op = "debug" /\ level.n = 3
  /\ Len(last.invoked) = 1 /\ last.invoked[1].f = "f"
  /\ last.invoked[1].outcome = "return"
  /\ TagText("ERROR") \in DOMAIN cb /\ cb[TagText("ERROR")].f = "g"
  /\ NothingWritten

\* C3 as stated: with logToFile true and no path, a call at or above the
\* minimum level raises the no-path error and a call below it raises
\* nothing.  It fails when the callback of the severity raises.
C3_Original ==
  (IsLogCall /\ Misconfigured) =>
     last.thrown = (IF PassesFilter THEN NoPathError ELSE NoError)

\* C3: with logToFile = true and logFilePath unset, construction succeeds;
\* a call at or above the minimum level whose callback, if any, returns
\* normally raises the no-path error when it comes to write, and writes
\* nothing; a call below the minimum level raises nothing of its own, and
\* nothing at all when its callback, if any, returns normally.
C3_NoPathError ==
  /\ (last.op = "new" /\ ~last.opts.undef /\ Truthy(last.opts.logToFile)
        /\ ~Truthy(last.opts.logFilePath))
       => (phase = "ready" /\ last.thrown = NoError /\ Misconfigured)
  /\ (IsLogCall /\ Misconfigured) =>
       IF CallbackRaised THEN last.thrown = CallbackError
       ELSE IF PassesFilter THEN last.thrown = NoPathError /\ NothingWritten
       ELSE last.thrown = NoError

C3_Witness ==
  /\ last.op = "error" /\ Misconfigured /\ Truthy(logToConsole)
  /\ last.thrown = NoPathError /\ stdout = <<>>

C5_CallbackRaises ==
  (IsLogCall /\ CallbackRaised) =>
     /\ last.thrown = CallbackError
     /\ NothingWritten
     /\ cb = pre.cb

\* the callback of error() raises with both sinks enabled and usable
C5_Witness ==
  /\ last.op = "error" /\ CallbackRaised /\ PassesFilter
  /\ Truthy(logToFile) /\ Truthy(logFilePath) /\ Truthy(logToConsole)
  /\ last.thrown = CallbackError

\* C6: the table holds at most one callback per severity: on(s, g) with a
\* recognized s and a function g leaves g in the slot of s whatever was
\* there, and leaves the other slots alone; a call invokes at most one
\* callback, the one in the slot of its severity.
C6_Replaces ==
  /\ (last.op = "on" /\ IncludesLogType(last.level) /\ last.args[1].type = "function")
       => /\ DOMAIN cb = DOMAIN pre.cb \cup {last.level.s}
          /\ cb[last.level.s].f = last.args[1].f
          /\ \A k \in DOMAIN pre.cb : k # last.level.s => cb[k] = pre.cb[k]
  /\ IsLogCall =>
       /\ Len(last.invoked) <= 1
       /\ \A i \in 1..Len(last.invoked) :
            /\ TagText(CalledType) \in DOMAIN cb
            /\ last.invoked[i].f = cb[TagText(CalledType)].f

\* on(WARN, g) on a table that holds f for WARN and a callback for ERROR
C6_Witness ==
  /\ last.op = "on" /\ last.level = JSString(TagText("WARN"))
  /\ TagText("WARN") \in DOMAIN pre.cb /\ pre.cb[TagText("WARN")].f = "f"
  /\ TagText("ERROR") \in DOMAIN pre.cb
  /\ cb[TagText("WARN")].f = "g"

C8_ConstructsWithoutArgument ==
  (last.op = "new" /\ last.opts.undef) =>
     (phase = "ready" /\ last.thrown = NoError)

RECURSIVE Lines(_)
\* the lines of a text, each with its newline
Lines(text) ==
  IF text = <<>> THEN <<>>
  ELSE LET ends == {i \in 1..Len(text) : text[i] = "\n"}
           k == IF ends = {} THEN Len(text)
                ELSE CHOOSE i \in ends : \A j \in ends : i <= j
       IN  <<SubSeq(text, 1, k)>> \o Lines(SubSeq(text, k + 1, Len(text)))

Emitted == IsLogCall /\ ~CallbackRaised /\ PassesFilter

\* C9: with logToFile = true and logFilePath set, the file holds one
\* formatted line per call that passed the severity filter, in call order
\* (the k-th line carries the k-th reading of the clock); a call that
\* passes the filter leaves the file as it was with its own line appended,
\* and every other call, and on, leave the file as it was.
C9_AppendOnly ==
  (phase = "ready" /\ Truthy(logToFile) /\ Truthy(logFilePath)) =>
     LET ls == Lines(FileText(disk))
     IN  /\ Len(ls) = now
         /\ \A k \in 1..Len(ls) :
              /\ SubSeq(ls[k], 1, 24) = toISOString(k - 1)
              /\ \E t \in TypeNames, m \in MessageInputs : IsFormattedLine(ls[k], t, m)
         /\ Emitted =>
              /\ disk[LogPath].exists
              /\ IsPrefix(FileText(pre.disk), FileText(disk))
              /\ IsFormattedLine(Delta(FileText(pre.disk), FileText(disk)),
                                 CalledType, last.args)
         /\ (last.op # "new" /\ ~Emitted) => disk = pre.disk

\* two lines in the file, then a call the filter drops
C9_Witness ==
  /\ Truthy(logToFile) /\ Truthy(logFilePath)
  /\ last.op = "info" /\ level.n = 2 /\ nops = 3
  /\ Len(Lines(FileText(disk))) = 2
  /\ Lines(FileText(disk))[1] # Lines(FileText(disk))[2]

\* C10: with logToConsole = true a call that is emitted puts exactly its
\* formatted line on the console: the timestamp, the tag, the message and
\* one newline, with nothing after it; a call the filter drops puts
\* nothing.  console.log adds a newline of its own to the line.
C10_ConsoleLine ==
  (IsLogCall /\ Truthy(logToConsole) /\ ~CallbackRaised /\ ~Misconfigured) =>
     IF PassesFilter
       THEN /\ IsPrefix(pre.stdout, stdout)
            /\ IsFormattedLine(Delta(pre.stdout, stdout), CalledType, last.args)
       ELSE stdout = pre.stdout

====
